---- MODULE Spec2Model ----
(***************************************************************************)
(* A model of the MakiNet control plane: the image builder (build steps,   *)
(* layer generation, the zip/BSON archive codec, extraction) and the       *)
(* periodic agent check.                                                   *)
(*                                                                         *)
(* Text is modelled as sequences of one-character strings, so that         *)
(* suffix tests, glob matching, path parsing and file appends are          *)
(* computed and not assumed.  A Python dict is an ordered mapping: a       *)
(* sequence of <<key, value>> pairs with pairwise distinct keys, in        *)
(* insertion order.                                                        *)
(***************************************************************************)
EXTENDS Integers, Sequences, FiniteSets, TLC

VARIABLES
    \* ---- the build command (cli.build_image) and the load that follows
    pc,          \* position of the build command
    source,      \* the source tree: relative path -> bytes
    steps,       \* BuildConfig.steps
    configOk,    \* whether maki-build.toml parses and validates
    stepIdx,     \* index of the next build step
    staging,     \* the build's temporary directory: relative path -> bytes
    image,       \* the Image being assembled
    compression, \* the --compression flag
    outFile,     \* the file at the output path
    layerIdx,    \* index of the next layer Image.pack writes
    loaded,      \* the result of load_image on the saved archive
    \* ---- ImageLayer construction
    lpc,         \* position of the construction scenario
    layerIn,     \* the arguments / the layer archive given
    layerOut,    \* the constructed ImageLayer, or Rejected
    \* ---- Image.extract_to_directory
    xpc,         \* position of the extraction
    ximage,      \* the Image being extracted
    xIdx,        \* index of the next layer to apply
    fs,          \* the file system: absolute path -> bytes
    \* ---- Image.unpack on an arbitrary archive
    upc,         \* position of the unpacking
    archive,     \* the image archive read
    probe,       \* the loop variable i of Image.unpack
    unpacked,    \* the layers collected so far
    \* ---- the agent manager
    agents,      \* number of registered agents (AgentManager.agents)
    status,      \* Agent.status, per agent
    info,        \* Agent.info, per agent (0 is None)
    tasks,       \* the ping coroutines: <<run, agent>> -> position
    gather,      \* per round: the state of asyncio.gather
    round        \* number of runs of the periodic job so far

buildVars   == <<pc, source, steps, configOk, stepIdx, staging, image,
                 compression, outFile, layerIdx, loaded>>
layerVars   == <<lpc, layerIn, layerOut>>
extractVars == <<xpc, ximage, xIdx, fs>>
unpackVars  == <<upc, archive, probe, unpacked>>
agentVars   == <<agents, status, info, tasks, gather, round>>
vars == <<buildVars, layerVars, extractVars, unpackVars, agentVars>>

----------------------------------------------------------------------------
(* Bounds of the model. *)

MaxSteps == 3

MaxLayers == 2

MaxIndex == 3

NumAgents == 2

MaxRounds == 2

----------------------------------------------------------------------------
(* Text. *)

Range(s) == {s[i] : i \in 1..Len(s)}

Last(s) == s[Len(s)]

Front(s) == SubSeq(s, 1, Len(s) - 1)

\* str.endswith
EndsWith(s, suffix) ==
    /\ Len(s) >= Len(suffix)
    /\ SubSeq(s, Len(s) - Len(suffix) + 1, Len(s)) = suffix

RECURSIVE Join(_, _)
\* sep.join(parts)
Join(sep, parts) ==
    IF parts = <<>> THEN <<>>
    ELSE IF Len(parts) = 1 THEN Head(parts)
    ELSE Head(parts) \o sep \o Join(sep, Tail(parts))

RECURSIVE Split(_, _)
\* s.split(sep) for a one-character separator
Split(s, sep) ==
    IF \A i \in 1..Len(s) : s[i] # sep THEN <<s>>
    ELSE LET k == CHOOSE i \in 1..Len(s) :
                      s[i] = sep /\ \A j \in 1..(i - 1) : s[j] # sep
         IN  <<SubSeq(s, 1, k - 1)>> \o Split(SubSeq(s, k + 1, Len(s)), sep)

RECURSIVE Filter(_, _)
\* the elements of s that are not in the set drop, in order
Filter(s, drop) ==
    IF s = <<>> THEN <<>>
    ELSE IF Head(s) \in drop THEN Filter(Tail(s), drop)
    ELSE <<Head(s)>> \o Filter(Tail(s), drop)

\* the decimal digits of str(i)
DigitChars == <<"0", "1", "2", "3", "4", "5", "6", "7", "8", "9">>

RECURSIVE IntToStr(_)
\* str(i) for i >= 0
IntToStr(i) ==
    IF i < 10 THEN <<DigitChars[i + 1]>>
    ELSE IntToStr(i \div 10) \o <<DigitChars[(i % 10) + 1]>>

----------------------------------------------------------------------------
(* Ordered mappings (Python dict). *)

Keys(m) == {m[i][1] : i \in 1..Len(m)}

Values(m) == [i \in 1..Len(m) |-> m[i][2]]

HasKey(m, k) == k \in Keys(m)

\* m[k]
Get(m, k) == m[CHOOSE i \in 1..Len(m) : m[i][1] = k][2]

\* m.get(k, default)
GetOr(m, k, default) == IF HasKey(m, k) THEN Get(m, k) ELSE default

IsDict(m) == \A i, j \in 1..Len(m) : m[i][1] = m[j][1] => i = j

----------------------------------------------------------------------------
(* hashlib.sha256(...).hexdigest(), as a small checksum over the bytes. *)

Alphabet ==
    <<"a", "b", "c", "d", "e", "f", "g", "h", "i", "j", "k", "l", "m", "n",
      "o", "p", "q", "r", "s", "t", "u", "v", "w", "x", "y", "z", "0", "1",
      "2", "3", "4", "5", "6", "7", "8", "9", ".", "/", "_", "=", "\n", " ",
      "*", "-", "A", "F", "O", "X">>

Code(c) == CHOOSE i \in 1..Len(Alphabet) : Alphabet[i] = c

HexChars ==
    <<"0", "1", "2", "3", "4", "5", "6", "7", "8", "9",
      "a", "b", "c", "d", "e", "f">>

RECURSIVE Fold(_, _)
Fold(bytes, acc) ==
    IF bytes = <<>> THEN acc
    ELSE Fold(Tail(bytes), (acc * 31 + Code(Head(bytes))) % 256)

Sha256Hex(bytes) ==
    LET h == Fold(bytes, 7)
    IN  <<HexChars[(h \div 16) + 1], HexChars[(h % 16) + 1]>>

----------------------------------------------------------------------------
(* Paths (pathlib on POSIX).  A parsed path is a sequence of components;   *)
(* an absolute one starts with the component "/".                          *)

Slash == "/"

\* Path(s).is_absolute()
IsAbsolute(s) == s # <<>> /\ s[1] = Slash

\* Path(s).parts: empty and "." components are dropped, ".." is kept
Parse(s) ==
    (IF IsAbsolute(s) THEN <<<<Slash>>>> ELSE <<>>)
        \o Filter(Split(s, Slash), {<<>>, <<".">>})

\* Path.as_posix() of a relative path
AsPosix(parts) == Join(<<Slash>>, parts)

\* base / s: an absolute right operand replaces the base
PathJoin(base, s) == IF IsAbsolute(s) THEN Parse(s) ELSE base \o Parse(s)

RECURSIVE ResolveFrom(_, _)
ResolveFrom(done, rest) ==
    IF rest = <<>> THEN done
    ELSE IF Head(rest) = <<".", ".">>
         THEN ResolveFrom(IF Len(done) > 1 THEN Front(done) ELSE done, Tail(rest))
         ELSE ResolveFrom(Append(done, Head(rest)), Tail(rest))

\* the file the operating system opens for an absolute path: ".." steps up
Resolve(parts) == ResolveFrom(<<>>, parts)

\* whether the absolute path p lies below the directory dir
IsInside(dir, p) == Len(p) > Len(dir) /\ SubSeq(p, 1, Len(dir)) = dir

RECURSIVE FnMatch(_, _)
\* fnmatch.fnmatchcase(name, pat) for patterns of literals and "*"
FnMatch(pat, name) ==
    IF pat = <<>> THEN name = <<>>
    ELSE IF Head(pat) = "*"
         THEN \E k \in 0..Len(name) :
                  FnMatch(Tail(pat), SubSeq(name, k + 1, Len(name)))
         ELSE /\ name # <<>>
              /\ Head(name) = Head(pat)
              /\ FnMatch(Tail(pat), Tail(name))

\* the directories of a tree of regular files
Dirs(tree) ==
    UNION {{SubSeq(p, 1, k) : k \in 1..(Len(p) - 1)} : p \in DOMAIN tree}

\* Path.rglob(pattern): the entries (files and directories) below the root
\* whose trailing components match the pattern's components
Rglob(tree, pattern) ==
    LET pat == Parse(pattern)
        n   == Len(pat)
    IN  {e \in DOMAIN tree \cup Dirs(tree) :
            /\ Len(e) >= n
            /\ \A i \in 1..n : FnMatch(pat[i], e[Len(e) - n + i])}

----------------------------------------------------------------------------
(* The build configuration and the source tree. *)

ImageZipSuffix == <<".", "i", "m", "a", "g", "e", ".", "z", "i", "p">>

EnvFileName == <<".", "i", "m", "a", "g", "e", ".", "e", "n", "v">>

ConfigFileName ==
    <<"m", "a", "k", "i", "-", "b", "u", "i", "l", "d", ".", "t", "o", "m", "l">>

CopyStep(src) == [type |-> "copy", src |-> src, name |-> <<>>, value |-> <<>>]

SetEnvStep(name, value) ==
    [type |-> "setenv", src |-> <<>>, name |-> name, value |-> value]

\* the steps a configuration is drawn from
StepChoices ==
    { CopyStep(<<"*">>), CopyStep(<<"*", ".", "t", "x", "t">>),
      SetEnvStep(<<"F">>, <<"1">>), SetEnvStep(<<"F">>, <<"2">>) }

\* the files a source tree is drawn from, beside the configuration file
SourceChoices ==
    { <<<<"a", ".", "t", "x", "t">>>>,
      <<<<"f">> \o ImageZipSuffix>>,
      <<EnvFileName>>,
      <<<<"d">>, <<"b", ".", "t", "x", "t">>>> }

SourceBytes(p) ==
    IF p = <<ConfigFileName>> THEN <<"t">>
    ELSE IF p = <<EnvFileName>> THEN <<"X", "=", "1">>
    ELSE IF EndsWith(Last(p), ImageZipSuffix) THEN <<"z">>
    ELSE IF Len(p) = 2 THEN <<"b">>
    ELSE <<"h", "e", "l", "l", "o">>

SeqsUpTo(S, n) == UNION {[1..k -> S] : k \in 0..n}

ConfigSlug == <<"d", "e", "m", "o">>

ConfigVersion == <<"1", "7">>

EmptyTree == [p \in {} |-> <<>>]

NoImage == [slug |-> <<>>, version |-> <<>>, layers |-> <<>>]

----------------------------------------------------------------------------
(* builder.evaluate_build_step *)

\* evaluate_build_step without the .image.zip test
CopiedFilesNoSkip(step, src) ==
    {f \in Rglob(src, step.src) : f \notin Dirs(src)}

\* the files a copy step copies: matched, not a directory, not *.image.zip
CopiedFiles(step, src) ==
    {f \in Rglob(src, step.src) :
        /\ f \notin Dirs(src)
        /\ ~EndsWith(Last(f), ImageZipSuffix)}

\* the line a setenv step appends
EnvLine(step) == <<"\n">> \o step.name \o <<"=">> \o step.value

EvaluateBuildStep(step, src, tmp) ==
    IF step.type = "copy"
    THEN LET new == CopiedFiles(step, src)
         IN  [p \in DOMAIN tmp \cup new |-> IF p \in new THEN src[p] ELSE tmp[p]]
    ELSE LET env == <<EnvFileName>>
             old == IF env \in DOMAIN tmp THEN tmp[env] ELSE <<>>
         IN  [p \in DOMAIN tmp \cup {env} |->
                 IF p = env THEN old \o EnvLine(step) ELSE tmp[p]]

----------------------------------------------------------------------------
(* builder.config.ImageLayer *)

KeyChecksum == <<"c", "h", "e", "c", "k", "s", "u", "m">>

KeyContent == <<"c", "o", "n", "t", "e", "n", "t">>

KeyDeletedFiles ==
    <<"d", "e", "l", "e", "t", "e", "d", "_", "f", "i", "l", "e", "s">>

KeySlug == <<"s", "l", "u", "g">>

KeyVersion == <<"v", "e", "r", "s", "i", "o", "n">>

NoLayer == [checksum |-> <<>>, content |-> <<>>, deleted_files |-> <<>>]

Rejected == [ok |-> FALSE, layer |-> NoLayer]

\* validate_content returning after the first key
ValidateContentFirstKey(content) ==
    content = <<>> \/ ~IsAbsolute(content[1][1])

\* ImageLayer.validate_content: no key of content may be absolute
ValidateContent(content) == \A k \in Keys(content) : ~IsAbsolute(k)

\* ImageLayer(**kwargs): the required fields, the validator, the default of
\* deleted_files; unknown keys (the derived slug) are ignored
ImageLayerNew(kwargs) ==
    IF /\ HasKey(kwargs, KeyChecksum)
       /\ HasKey(kwargs, KeyContent)
       /\ ValidateContent(Get(kwargs, KeyContent))
    THEN [ok |-> TRUE,
          layer |-> [checksum |-> Get(kwargs, KeyChecksum),
                     content |-> Get(kwargs, KeyContent),
                     deleted_files |-> GetOr(kwargs, KeyDeletedFiles, <<>>)]]
    ELSE Rejected

\* ImageLayer.slug: sha256 of the checksums joined by a space
LayerSlug(layer) == Sha256Hex(Join(<<" ">>, Values(layer.checksum)))

----------------------------------------------------------------------------
(* builder.generate_image_layer *)

\* the orders in which rglob("*") may yield the files of a directory
Orders(D) ==
    {o \in [1..Cardinality(D) -> D] : \A i, j \in DOMAIN o : o[i] = o[j] => i = j}

\* generate_image_layer hashing the path in place of the bytes read
GenerateImageLayerPathHash(tmp, order) ==
    ImageLayerNew(
        << <<KeyContent,
             [i \in 1..Len(order) |-> <<AsPosix(order[i]), tmp[order[i]]>>]>>,
           <<KeyChecksum,
             [i \in 1..Len(order) |->
                 <<AsPosix(order[i]), Sha256Hex(AsPosix(order[i]))>>]>> >>)

GenerateImageLayer(tmp, order) ==
    ImageLayerNew(
        << <<KeyContent,
             [i \in 1..Len(order) |-> <<AsPosix(order[i]), tmp[order[i]]>>]>>,
           <<KeyChecksum,
             [i \in 1..Len(order) |->
                 <<AsPosix(order[i]), Sha256Hex(tmp[order[i]])>>]>> >>)

----------------------------------------------------------------------------
(* bson.dumps / bson.loads.  A document is a sequence of elements, each    *)
(* with a name, a type and a value; an array is a document whose names are *)
(* the decimal indices.                                                    *)

Element(name, type, value) == [name |-> name, type |-> type, value |-> value]

\* a dict of str values
DumpsStrDict(m) ==
    [i \in 1..Len(m) |-> Element(m[i][1], "string", m[i][2])]

\* a dict of bytes values
DumpsBytesDict(m) ==
    [i \in 1..Len(m) |-> Element(m[i][1], "binary", m[i][2])]

\* a list of str
DumpsStrList(l) ==
    [i \in 1..Len(l) |-> Element(IntToStr(i - 1), "string", l[i])]

RECURSIVE BsonLoads(_)
\* bson.loads: documents become dicts, arrays lists, strings and binaries
\* their value
BsonLoads(doc) ==
    [i \in 1..Len(doc) |->
        <<doc[i].name,
          IF doc[i].type = "document" THEN BsonLoads(doc[i].value)
          ELSE IF doc[i].type = "array" THEN Values(BsonLoads(doc[i].value))
          ELSE doc[i].value>>]

----------------------------------------------------------------------------
(* zipfile.ZipFile.  An archive is the sequence of its entries; a deflated *)
(* entry holds its data wrapped, and reading unwraps it.                   *)

ZipMethod(compress) == IF compress THEN "deflated" ELSE "stored"

Deflate(method, data) ==
    IF method = "deflated" THEN [deflated |-> data] ELSE [stored |-> data]

Inflate(method, blob) ==
    IF method = "deflated" THEN blob.deflated ELSE blob.stored

NoFile == [exists |-> FALSE, entries |-> <<>>, closed |-> FALSE]

\* ZipFile(path, "w"): the file is created (or truncated) at once
ZipOpen == [exists |-> TRUE, entries |-> <<>>, closed |-> FALSE]

\* ZipFile.writestr / ZipFile.write
ZipWrite(zip, name, data, compress) ==
    [zip EXCEPT !.entries =
        Append(@, [name |-> name, method |-> ZipMethod(compress),
                   blob |-> Deflate(ZipMethod(compress), data)])]

\* ZipFile.close, also run when the with block is left by an exception
ZipClose(zip) == [zip EXCEPT !.closed = TRUE]

\* ZipFile.namelist
NameList(zip) == [i \in 1..Len(zip.entries) |-> zip.entries[i].name]

ZipHas(zip, name) == name \in Range(NameList(zip))

\* ZipFile.read: the last entry of that name
ZipRead(zip, name) ==
    LET i == CHOOSE i \in 1..Len(zip.entries) :
                 /\ zip.entries[i].name = name
                 /\ \A j \in (i + 1)..Len(zip.entries) : zip.entries[j].name # name
    IN  Inflate(zip.entries[i].method, zip.entries[i].blob)

InfoBson == <<"i", "n", "f", "o", ".", "b", "s", "o", "n">>

ContentBson == <<"c", "o", "n", "t", "e", "n", "t", ".", "b", "s", "o", "n">>

LayersDir == <<"l", "a", "y", "e", "r", "s", "/">>

\* f"layers/layer_{i}.zip"
LayerEntryName(i) ==
    LayersDir \o <<"l", "a", "y", "e", "r", "_">> \o IntToStr(i)
        \o <<".", "z", "i", "p">>

----------------------------------------------------------------------------
(* ImageLayer.pack / ImageLayer.unpack *)

\* model_dump(mode="json") without the exclude: content is dumped as well
LayerInfoWithContent(layer) ==
    << Element(KeyChecksum, "document", DumpsStrDict(layer.checksum)),
       Element(KeyContent, "document", DumpsBytesDict(layer.content)),
       Element(KeyDeletedFiles, "array", DumpsStrList(layer.deleted_files)),
       Element(KeySlug, "string", LayerSlug(layer)) >>

\* model_dump(mode="json", exclude={"content"}): the fields in declaration
\* order, then the computed slug
LayerInfo(layer) ==
    << Element(KeyChecksum, "document", DumpsStrDict(layer.checksum)),
       Element(KeyDeletedFiles, "array", DumpsStrList(layer.deleted_files)),
       Element(KeySlug, "string", LayerSlug(layer)) >>

LayerPack(layer, compress) ==
    ZipClose(
        ZipWrite(
            ZipWrite(ZipOpen, InfoBson, LayerInfo(layer), compress),
            ContentBson, DumpsBytesDict(layer.content), compress))

\* cls(**info, content=content); a missing entry is a KeyError, a content
\* key in info a TypeError (the keyword is given twice)
LayerUnpack(zip) ==
    IF /\ ZipHas(zip, InfoBson) /\ ZipHas(zip, ContentBson)
       /\ ~HasKey(BsonLoads(ZipRead(zip, InfoBson)), KeyContent)
    THEN ImageLayerNew(
             Append(BsonLoads(ZipRead(zip, InfoBson)),
                    <<KeyContent, BsonLoads(ZipRead(zip, ContentBson))>>))
    ELSE Rejected

----------------------------------------------------------------------------
(* Image.pack / Image.unpack *)

\* model_dump(mode="json", exclude={"layers"})
ImageInfo(img) ==
    << Element(KeySlug, "string", img.slug),
       Element(KeyVersion, "string", img.version) >>

\* the writes before the loop: info.bson, then the layers/ directory entry
PackHeader(zip, img, compress) ==
    ZipWrite(ZipWrite(zip, InfoBson, ImageInfo(img), compress),
             LayersDir, <<>>, FALSE)

\* one iteration of the loop of Image.pack, for the layer at index i (from 0)
PackLayer(zip, img, i, compress) ==
    ZipWrite(zip, LayerEntryName(i), LayerPack(img.layers[i + 1], compress),
             compress)

\* the loop of Image.unpack leaving at the first missing index (break)
UnpackProbeBreak(zip, i, acc) ==
    IF ~acc.ok \/ Len(acc.layers) # i \/ ~ZipHas(zip, LayerEntryName(i))
    THEN acc
    ELSE LET l == LayerUnpack(ZipRead(zip, LayerEntryName(i)))
         IN  IF l.ok THEN [ok |-> TRUE, layers |-> Append(acc.layers, l.layer)]
             ELSE [ok |-> FALSE, layers |-> <<>>]

\* one iteration of the loop of Image.unpack: a missing index is skipped
\* (continue); a layer that does not unpack raises
UnpackProbe(zip, i, acc) ==
    IF ~acc.ok \/ ~ZipHas(zip, LayerEntryName(i)) THEN acc
    ELSE LET l == LayerUnpack(ZipRead(zip, LayerEntryName(i)))
         IN  IF l.ok THEN [ok |-> TRUE, layers |-> Append(acc.layers, l.layer)]
             ELSE [ok |-> FALSE, layers |-> <<>>]

RECURSIVE UnpackLoop(_, _, _)
\* for i in range(len(zip_file.namelist())), from index i on
UnpackLoop(zip, i, acc) ==
    IF i >= Len(NameList(zip)) THEN acc
    ELSE UnpackLoop(zip, i + 1, UnpackProbe(zip, i, acc))

\* Image.unpack: cls(**info, layers=layers)
ImageUnpack(zip) ==
    LET kw == BsonLoads(ZipRead(zip, InfoBson))
        r  == UnpackLoop(zip, 0, [ok |-> TRUE, layers |-> <<>>])
    IN  [ok |-> r.ok /\ HasKey(kw, KeySlug) /\ HasKey(kw, KeyVersion),
         image |-> IF r.ok /\ HasKey(kw, KeySlug) /\ HasKey(kw, KeyVersion)
                   THEN [slug |-> Get(kw, KeySlug),
                         version |-> Get(kw, KeyVersion),
                         layers |-> r.layers]
                   ELSE NoImage]

----------------------------------------------------------------------------
(* The states of the parts of the model a specification leaves alone. *)

NotLoaded == [ok |-> FALSE, image |-> NoImage]

BuildIdle ==
    /\ pc = "idle" /\ source = EmptyTree /\ steps = <<>> /\ configOk = TRUE
    /\ stepIdx = 1 /\ staging = EmptyTree /\ image = NoImage
    /\ compression = FALSE /\ outFile = NoFile /\ layerIdx = 0
    /\ loaded = NotLoaded

LayerIdle == lpc = "idle" /\ layerIn = <<>> /\ layerOut = Rejected

ExtractIdle == xpc = "idle" /\ ximage = NoImage /\ xIdx = 1 /\ fs = EmptyTree

UnpackIdle ==
    /\ upc = "idle" /\ archive = NoFile /\ probe = 0
    /\ unpacked = [ok |-> TRUE, layers |-> <<>>]

AgentsIdle ==
    /\ agents = 0 /\ status = <<>> /\ info = <<>> /\ tasks = <<>>
    /\ gather = <<>> /\ round = 0

----------------------------------------------------------------------------
(* The build command: cli.build_image, builder.build_image_from_directory, *)
(* builder.save_image, followed by cli.load's builder.load_image.          *)

SourceTrees ==
    {[p \in S \cup {<<ConfigFileName>>} |-> SourceBytes(p)] :
        S \in SUBSET SourceChoices}

InitBuild ==
    /\ pc = "start"
    /\ source \in SourceTrees
    /\ steps \in SeqsUpTo(StepChoices, MaxSteps)
    /\ configOk \in BOOLEAN
    /\ stepIdx = 1
    /\ staging = EmptyTree
    /\ image = NoImage
    /\ compression = FALSE
    /\ outFile = NoFile
    /\ layerIdx = 0
    /\ loaded = NotLoaded

\* BuildConfig.model_validate(toml.load(...)); Image(...); the temporary
\* directory is entered
LoadConfig ==
    /\ pc = "start" /\ configOk
    /\ image' = [slug |-> ConfigSlug, version |-> ConfigVersion, layers |-> <<>>]
    /\ pc' = "steps"
    /\ UNCHANGED <<source, steps, configOk, stepIdx, staging, compression,
                   outFile, layerIdx, loaded>>

\* a malformed or schema-invalid configuration raises
ConfigError ==
    /\ pc = "start" /\ ~configOk
    /\ pc' = "failed"
    /\ UNCHANGED <<source, steps, configOk, stepIdx, staging, image,
                   compression, outFile, layerIdx, loaded>>

\* one iteration of "for step in config.steps"
RunStep ==
    /\ pc = "steps" /\ stepIdx <= Len(steps)
    /\ staging' = EvaluateBuildStep(steps[stepIdx], source, staging)
    /\ stepIdx' = stepIdx + 1
    /\ UNCHANGED <<pc, source, steps, configOk, image, compression, outFile,
                   layerIdx, loaded>>

\* an I/O error in a step or in generate_image_layer propagates; leaving
\* the with block removes the temporary directory
BuildFails ==
    /\ pc = "steps"
    /\ staging' = EmptyTree
    /\ pc' = "failed"
    /\ UNCHANGED <<source, steps, configOk, stepIdx, image, compression,
                   outFile, layerIdx, loaded>>

\* image.layers.append(generate_image_layer(...))
BuildLayer ==
    /\ pc = "steps" /\ stepIdx > Len(steps)
    /\ \E order \in Orders(DOMAIN staging) :
          LET r == GenerateImageLayer(staging, order)
          IN  /\ r.ok
              /\ image' = [image EXCEPT !.layers = Append(@, r.layer)]
    /\ pc' = "layered"
    /\ UNCHANGED <<source, steps, configOk, stepIdx, staging, compression,
                   outFile, layerIdx, loaded>>

\* the with block is left: the temporary directory is removed
LeaveStaging ==
    /\ pc = "layered"
    /\ staging' = EmptyTree
    /\ pc' = "built"
    /\ UNCHANGED <<source, steps, configOk, stepIdx, image, compression,
                   outFile, layerIdx, loaded>>

\* save_image -> Image.pack: ZipFile(path, "w") creates the output file
PackOpen ==
    /\ pc = "built"
    /\ compression' \in BOOLEAN
    /\ outFile' = ZipOpen
    /\ pc' = "pack_header"
    /\ UNCHANGED <<source, steps, configOk, stepIdx, staging, image,
                   layerIdx, loaded>>

\* the output file cannot be created
OpenFails ==
    /\ pc = "built"
    /\ pc' = "failed"
    /\ UNCHANGED <<source, steps, configOk, stepIdx, staging, image,
                   compression, outFile, layerIdx, loaded>>

PackHeaderStep ==
    /\ pc = "pack_header"
    /\ outFile' = PackHeader(outFile, image, compression)
    /\ layerIdx' = 0
    /\ pc' = "pack_layers"
    /\ UNCHANGED <<source, steps, configOk, stepIdx, staging, image,
                   compression, loaded>>

PackLayerStep ==
    /\ pc = "pack_layers" /\ layerIdx < Len(image.layers)
    /\ outFile' = PackLayer(outFile, image, layerIdx, compression)
    /\ layerIdx' = layerIdx + 1
    /\ UNCHANGED <<pc, source, steps, configOk, stepIdx, staging, image,
                   compression, loaded>>

\* both with blocks are left normally
PackDone ==
    /\ pc = "pack_layers" /\ layerIdx = Len(image.layers)
    /\ outFile' = ZipClose(outFile)
    /\ pc' = "saved"
    /\ UNCHANGED <<source, steps, configOk, stepIdx, staging, image,
                   compression, layerIdx, loaded>>

\* an error while packing (bson.dumps, a write) leaves the with blocks:
\* ZipFile.__exit__ closes the archive, nothing removes it
PackFails ==
    /\ pc \in {"pack_header", "pack_layers"}
    /\ outFile' = ZipClose(outFile)
    /\ pc' = "failed"
    /\ UNCHANGED <<source, steps, configOk, stepIdx, staging, image,
                   compression, layerIdx, loaded>>

\* load_image(path) on the archive just saved
Load ==
    /\ pc = "saved"
    /\ loaded' = ImageUnpack(outFile)
    /\ pc' = "loaded"
    /\ UNCHANGED <<source, steps, configOk, stepIdx, staging, image,
                   compression, outFile, layerIdx>>

NextBuild ==
    \/ LoadConfig \/ ConfigError \/ RunStep \/ BuildFails \/ BuildLayer
    \/ LeaveStaging \/ PackOpen \/ OpenFails \/ PackHeaderStep
    \/ PackLayerStep \/ PackDone \/ PackFails \/ Load

Init == InitBuild /\ LayerIdle /\ ExtractIdle /\ UnpackIdle /\ AgentsIdle

Next ==
    NextBuild /\ UNCHANGED <<layerVars, extractVars, unpackVars, agentVars>>

Spec == Init /\ [][Next]_vars

----------------------------------------------------------------------------
(* Properties of the build command, checked under Spec. *)

BuiltLayer == image.layers[1]

StagedKeys == {AsPosix(p) : p \in DOMAIN staging}

HasSetEnv == \E i \in 1..Len(steps) : steps[i].type = "setenv"

HasCopyAll == \E i \in 1..Len(steps) : steps[i] = CopyStep(<<"*">>)

\* C1: for an Image built by build_image_from_directory and either value of
\* the compression flag, Image.unpack after Image.pack yields an Image with
\* the same slug, the same version, the same number of layers in the same
\* order and, per layer, the same checksum mapping, content mapping and
\* deleted_files sequence.
C1_RoundTrip ==
    pc = "loaded" =>
        /\ loaded.ok
        /\ loaded.image.slug = image.slug
        /\ loaded.image.version = image.version
        /\ Len(loaded.image.layers) = Len(image.layers)
        /\ \A i \in 1..Len(image.layers) :
              /\ loaded.image.layers[i].checksum = image.layers[i].checksum
              /\ loaded.image.layers[i].content = image.layers[i].content
              /\ loaded.image.layers[i].deleted_files
                     = image.layers[i].deleted_files

C1_Witness ==
    /\ pc = "loaded" /\ compression /\ loaded.ok
    /\ Len(image.layers) = 1
    /\ Len(BuiltLayer.content) >= 3
    /\ HasKey(BuiltLayer.content, EnvFileName)

\* C2: the layer returned by generate_image_layer(stagingRoot) has the same
\* key set for content and checksum, namely the relative paths of the
\* regular files under stagingRoot; checksum[p] = sha256(content[p]) for
\* every such path; and deleted_files is empty.
C2_LayerOfStaging ==
    pc = "layered" =>
        /\ Keys(BuiltLayer.content) = StagedKeys
        /\ Keys(BuiltLayer.checksum) = StagedKeys
        /\ IsDict(BuiltLayer.content) /\ IsDict(BuiltLayer.checksum)
        /\ \A k \in StagedKeys :
              Get(BuiltLayer.checksum, k) = Sha256Hex(Get(BuiltLayer.content, k))
        /\ BuiltLayer.deleted_files = <<>>

C2_Witness ==
    /\ pc = "layered"
    /\ Cardinality(DOMAIN staging) >= 3
    /\ <<<<"d">>, <<"b", ".", "t", "x", "t">>>> \in DOMAIN staging
    /\ <<EnvFileName>> \in DOMAIN staging

\* C5: whatever the source tree and the build steps, no file whose name
\* ends with .image.zip is a key of the content of a layer of the built
\* Image.
C5_NoImageZipInContent ==
    \A i \in 1..Len(image.layers) :
        \A k \in Keys(image.layers[i].content) : ~EndsWith(k, ImageZipSuffix)

C5_Witness ==
    /\ pc = "built"
    /\ <<<<"f">> \o ImageZipSuffix>> \in DOMAIN source
    /\ HasCopyAll
    /\ HasKey(BuiltLayer.content, <<"a", ".", "t", "x", "t">>)

\* C6: if the build command fails at any point, no archive file is left at
\* the output path.
C6_NoOutputOnFailure == pc = "failed" => ~outFile.exists

RECURSIVE FindFrom(_, _, _)
\* text.find(pat, from), 1-based; 0 when absent
FindFrom(text, pat, from) ==
    IF from + Len(pat) - 1 > Len(text) THEN 0
    ELSE IF SubSeq(text, from, from + Len(pat) - 1) = pat THEN from
    ELSE FindFrom(text, pat, from + 1)

RECURSIVE ContainsInOrder(_, _, _)
\* whether the lines occur in text one after the other, from position from
ContainsInOrder(text, lines, from) ==
    IF lines = <<>> THEN TRUE
    ELSE LET at == FindFrom(text, Head(lines), from)
         IN  /\ at # 0
             /\ ContainsInOrder(text, Tail(lines), at + Len(Head(lines)))

RECURSIVE EnvLines(_)
\* the lines of the setenv steps of a configuration, in declaration order
EnvLines(ss) ==
    IF ss = <<>> THEN <<>>
    ELSE (IF Head(ss).type = "setenv" THEN <<EnvLine(Head(ss))>> ELSE <<>>)
             \o EnvLines(Tail(ss))

\* C8: the .image.env of the built layer contains the line of every setenv
\* step of the configuration, in declaration order, repeated names kept.
C8_EnvLinesKept ==
    (pc = "built" /\ HasSetEnv) =>
        /\ HasKey(BuiltLayer.content, EnvFileName)
        /\ ContainsInOrder(Get(BuiltLayer.content, EnvFileName),
                           EnvLines(steps), 1)

----------------------------------------------------------------------------
(* Constructing an ImageLayer: directly, or by ImageLayer.unpack of a      *)
(* layer archive.                                                          *)

RelKey == <<"a">>

NestedKey == <<"d", "/", "b">>

AbsKey == <<"/", "x">>

UpKey == <<".", ".", "/", "x">>

DotKey == <<".", "/", "a">>

\* the dicts of at most two of the given items, with distinct keys
DictsOver(items) ==
    {<<>>} \cup {<<i>> : i \in items}
           \cup {<<p[1], p[2]>> : p \in {q \in items \X items : q[1][1] # q[2][1]}}

OneByte == <<"v">>

\* the arguments an ImageLayer is constructed from
LayerInputs ==
    [checksum : DictsOver({<<k, Sha256Hex(OneByte)>> :
                               k \in {RelKey, NestedKey, AbsKey}}),
     content : DictsOver({<<k, OneByte>> : k \in {RelKey, NestedKey, AbsKey}}),
     deleted_files : {<<>>, <<AbsKey>>}]

Kwargs(in) ==
    << <<KeyChecksum, in.checksum>>, <<KeyContent, in.content>>,
       <<KeyDeletedFiles, in.deleted_files>> >>

InitLayer == lpc = "start" /\ layerIn \in LayerInputs /\ layerOut = Rejected

\* ImageLayer(checksum=..., content=..., deleted_files=...)
Construct ==
    /\ lpc = "start"
    /\ layerOut' = ImageLayerNew(Kwargs(layerIn))
    /\ lpc' = "constructed"
    /\ UNCHANGED layerIn

\* ImageLayer.unpack of an archive holding these fields
UnpackLayer ==
    /\ lpc = "start"
    /\ \E c \in BOOLEAN : layerOut' = LayerUnpack(LayerPack(layerIn, c))
    /\ lpc' = "unpacked"
    /\ UNCHANGED layerIn

NextLayer == Construct \/ UnpackLayer

StartLayer ==
    BuildIdle /\ InitLayer /\ ExtractIdle /\ UnpackIdle /\ AgentsIdle

StepLayer ==
    NextLayer /\ UNCHANGED <<buildVars, extractVars, unpackVars, agentVars>>

SpecLayer == StartLayer /\ [][StepLayer]_vars

HasAbsolute(m) == \E k \in Keys(m) : IsAbsolute(k)

\* C3 as stated: construction is rejected whenever a key of content or of
\* checksum is absolute, so a constructed layer has relative keys only.
C3_AbsoluteKeyRejected ==
    lpc # "start" =>
        /\ (HasAbsolute(layerIn.content) \/ HasAbsolute(layerIn.checksum))
               => ~layerOut.ok
        /\ layerOut.ok => /\ ~HasAbsolute(layerOut.layer.content)
                          /\ ~HasAbsolute(layerOut.layer.checksum)

\* C3 amended: construction is rejected whenever a key of content is
\* absolute, and only then; a constructed layer has the given fields and
\* only relative keys in content.  The keys of checksum are not examined.
C3_AbsoluteContentKeyRejected ==
    lpc # "start" =>
        /\ layerOut.ok <=> ~HasAbsolute(layerIn.content)
        /\ layerOut.ok => /\ layerOut.layer = layerIn
                          /\ ~HasAbsolute(layerOut.layer.content)

C3_Witness ==
    /\ lpc = "unpacked"
    /\ HasKey(layerIn.content, AbsKey) /\ HasKey(layerIn.content, RelKey)
    /\ ~layerOut.ok

----------------------------------------------------------------------------
(* Image.extract_to_directory, on any Image whose layers were constructed. *)

\* the destination directory, and a file that exists outside it
Dest == << <<Slash>>, <<"o", "u", "t">> >>

OutsideFile == << <<Slash>>, <<"x">> >>

OutsideBytes == <<"o">>

\* the file a key or a deleted_files entry denotes: path / key, as opened
Target(dest, key) == Resolve(PathJoin(dest, key))

RECURSIVE WriteAll(_, _, _)
\* for file_path, content in layer.content.items(): write_bytes
WriteAll(fsys, content, dest) ==
    IF content = <<>> THEN fsys
    ELSE LET t == Target(dest, Head(content)[1])
         IN  WriteAll([p \in DOMAIN fsys \cup {t} |->
                          IF p = t THEN Head(content)[2] ELSE fsys[p]],
                      Tail(content), dest)

RECURSIVE UnlinkAll(_, _, _)
\* for deleted_file in layer.deleted_files: unlink(missing_ok=True)
UnlinkAll(fsys, deleted, dest) ==
    IF deleted = <<>> THEN fsys
    ELSE LET t == Target(dest, Head(deleted))
         IN  UnlinkAll([p \in DOMAIN fsys \ {t} |-> fsys[p]], Tail(deleted), dest)

\* the body of the loop with the deletions made before the writes
ExtractLayerDeleteFirst(fsys, layer, dest) ==
    WriteAll(UnlinkAll(fsys, layer.deleted_files, dest), layer.content, dest)

\* the body of "for layer in self.layers": the content, then the deletions
ExtractLayer(fsys, layer, dest) ==
    UnlinkAll(WriteAll(fsys, layer.content, dest), layer.deleted_files, dest)

\* the content and deleted_files an extracted layer is drawn from
ContentChoices ==
    {<<>>}
        \cup {<< <<k, <<b>>>> >> : k \in {RelKey, DotKey, UpKey, AbsKey},
                                     b \in {"x", "y"}}
        \cup { << <<RelKey, <<"x">>>>, <<DotKey, <<"y">>>> >>,
               << <<RelKey, <<"x">>>>, <<NestedKey, <<"y">>>> >> }

DeletedChoices == {<<>>, <<RelKey>>, <<AbsKey>>, <<UpKey>>}

\* the layers that construct: ImageLayer(checksum=..., content=..., ...)
LayerChoices ==
    {r.layer :
        r \in {q \in {ImageLayerNew(Kwargs([checksum |-> <<>>, content |-> c,
                                              deleted_files |-> d])) :
                          c \in ContentChoices, d \in DeletedChoices} : q.ok}}

InitExtract ==
    /\ xpc = "start"
    /\ ximage \in [slug : {ConfigSlug}, version : {ConfigVersion},
                   layers : SeqsUpTo(LayerChoices, MaxLayers)]
    /\ xIdx = 1
    /\ fs = [p \in {OutsideFile} |-> OutsideBytes]

\* path.mkdir(parents=True, exist_ok=True)
ExtractStart ==
    /\ xpc = "start"
    /\ xpc' = "layers"
    /\ UNCHANGED <<ximage, xIdx, fs>>

ExtractNext ==
    /\ xpc = "layers" /\ xIdx <= Len(ximage.layers)
    /\ fs' = ExtractLayer(fs, ximage.layers[xIdx], Dest)
    /\ xIdx' = xIdx + 1
    /\ UNCHANGED <<xpc, ximage>>

ExtractDone ==
    /\ xpc = "layers" /\ xIdx > Len(ximage.layers)
    /\ xpc' = "done"
    /\ UNCHANGED <<ximage, xIdx, fs>>

NextExtract == ExtractStart \/ ExtractNext \/ ExtractDone

StartExtract ==
    BuildIdle /\ LayerIdle /\ InitExtract /\ UnpackIdle /\ AgentsIdle

StepExtract ==
    NextExtract /\ UNCHANGED <<buildVars, layerVars, unpackVars, agentVars>>

SpecExtract == StartExtract /\ [][StepExtract]_vars

\* the path strings a layer mentions
Mentions(layer) == Keys(layer.content) \cup Range(layer.deleted_files)

XLayers == ximage.layers

\* the last layer that mentions the path string p
LastMentioning(p) ==
    CHOOSE i \in 1..Len(XLayers) :
        /\ p \in Mentions(XLayers[i])
        /\ \A j \in (i + 1)..Len(XLayers) : p \notin Mentions(XLayers[j])

\* C4 as stated: after extraction, for every path p a layer mentions, with
\* L the last layer that has p in content or deleted_files: p is absent if
\* p is in L.deleted_files, and otherwise holds L.content[p].
C4_LastLayerWinsByPath ==
    xpc = "done" =>
        \A p \in UNION {Mentions(XLayers[i]) : i \in 1..Len(XLayers)} :
            LET L == XLayers[LastMentioning(p)]
            IN  IF p \in Range(L.deleted_files)
                THEN Target(Dest, p) \notin DOMAIN fs
                ELSE /\ Target(Dest, p) \in DOMAIN fs
                     /\ fs[Target(Dest, p)] = Get(L.content, p)

\* the files the paths of a layer denote
Locations(layer) == {Target(Dest, p) : p \in Mentions(layer)}

\* the last layer one of whose paths denotes the file q
LastTouching(q) ==
    CHOOSE i \in 1..Len(XLayers) :
        /\ q \in Locations(XLayers[i])
        /\ \A j \in (i + 1)..Len(XLayers) : q \notin Locations(XLayers[j])

\* the value of the last item of content whose key denotes q
LastWritten(content, q) ==
    content[CHOOSE i \in 1..Len(content) :
                /\ Target(Dest, content[i][1]) = q
                /\ \A j \in (i + 1)..Len(content) :
                       Target(Dest, content[j][1]) # q][2]

\* C4 amended: layers are applied in list order, content before deletions;
\* after extraction, for every file q that a mentioned path denotes (two
\* paths denote the same file when they resolve alike, as "a" and "./a"),
\* with L the last layer one of whose paths denotes q: q is absent if an
\* entry of L.deleted_files denotes q, and otherwise q holds the value of
\* the last item of L.content whose key denotes q.
C4_LastLayerWinsByFile ==
    xpc = "done" =>
        \A q \in UNION {Locations(XLayers[i]) : i \in 1..Len(XLayers)} :
            LET L == XLayers[LastTouching(q)]
            IN  IF \E d \in Range(L.deleted_files) : Target(Dest, d) = q
                THEN q \notin DOMAIN fs
                ELSE /\ q \in DOMAIN fs
                     /\ fs[q] = LastWritten(L.content, q)

C4_Witness ==
    /\ xpc = "done" /\ Len(XLayers) = 2
    /\ HasKey(XLayers[1].content, RelKey)
    /\ XLayers[1].deleted_files = <<RelKey>>
    /\ HasKey(XLayers[2].content, RelKey)
    /\ Get(XLayers[2].content, RelKey) # Get(XLayers[1].content, RelKey)
    /\ fs[Target(Dest, RelKey)] = Get(XLayers[2].content, RelKey)

\* C10: extraction of an Image whose layers were all constructed creates,
\* overwrites and deletes only files inside the destination directory.
C10_OnlyInsideDest ==
    /\ {p \in DOMAIN fs : ~IsInside(Dest, p)} = {OutsideFile}
    /\ fs[OutsideFile] = OutsideBytes

----------------------------------------------------------------------------
(* Image.unpack on an image archive whose layer entries may have gaps. *)

\* the layer stored under index i: told apart by its only file
LayerAt(i) ==
    [checksum |-> << <<IntToStr(i), Sha256Hex(<<"v">>)>> >>,
     content |-> << <<IntToStr(i), <<"v">>>> >>,
     deleted_files |-> <<>>]

RECURSIVE WriteLayers(_, _, _, _)
\* the layer entries of the indices in present, from index i upwards
WriteLayers(zip, present, i, compress) ==
    IF i > MaxIndex THEN zip
    ELSE WriteLayers(
             IF i \in present
             THEN ZipWrite(zip, LayerEntryName(i),
                           LayerPack(LayerAt(i), compress), compress)
             ELSE zip,
             present, i + 1, compress)

ReadmeName == <<"R", "E", "A", "D", "M", "E">>

\* an image archive: info.bson, the layers/ entry, an optional further
\* entry, and the layer archives of the indices in present
ArchiveOf(present, readme, compress) ==
    LET head == PackHeader(ZipOpen, [slug |-> ConfigSlug,
                                     version |-> ConfigVersion,
                                     layers |-> <<>>], compress)
        more == IF readme THEN ZipWrite(head, ReadmeName, <<"r">>, compress)
                ELSE head
    IN  ZipClose(WriteLayers(more, present, 0, compress))

InitUnpack ==
    /\ upc = "start"
    /\ archive \in {ArchiveOf(present, readme, compress) :
                        present \in SUBSET (0..MaxIndex),
                        readme \in BOOLEAN, compress \in BOOLEAN}
    /\ probe = 0
    /\ unpacked = [ok |-> TRUE, layers |-> <<>>]

\* info = bson.loads(zip_file.read("info.bson")); layers = []
UnpackStart ==
    /\ upc = "start"
    /\ upc' = "probing"
    /\ UNCHANGED <<archive, probe, unpacked>>

\* one iteration of "for i in range(len(zip_file.namelist()))"
ProbeStep ==
    /\ upc = "probing" /\ probe < Len(NameList(archive))
    /\ unpacked' = UnpackProbe(archive, probe, unpacked)
    /\ probe' = probe + 1
    /\ UNCHANGED <<upc, archive>>

\* return cls(**info, layers=layers)
UnpackDone ==
    /\ upc = "probing" /\ probe = Len(NameList(archive))
    /\ upc' = "done"
    /\ UNCHANGED <<archive, probe, unpacked>>

NextUnpack == UnpackStart \/ ProbeStep \/ UnpackDone

StartUnpack ==
    BuildIdle /\ LayerIdle /\ ExtractIdle /\ InitUnpack /\ AgentsIdle

StepUnpack ==
    NextUnpack /\ UNCHANGED <<buildVars, layerVars, extractVars, agentVars>>

SpecUnpack == StartUnpack /\ [][StepUnpack]_vars

\* the layer indices the archive holds
Present == {i \in 0..MaxIndex : ZipHas(archive, LayerEntryName(i))}

\* the archive has a gap: an index is missing below a present one
HasGap == \E k \in 0..MaxIndex, j \in Present : k < j /\ k \notin Present

FirstMissing == CHOOSE k \in 0..(MaxIndex + 1) :
                    k \notin Present /\ \A j \in 0..(k - 1) : j \in Present

\* the n-th smallest element of the set S of numbers (n from 1)
Nth(S, n) == CHOOSE i \in S : Cardinality({k \in S : k < i}) = n - 1

Probed == {i \in Present : i < Len(NameList(archive))}

----------------------------------------------------------------------------
(* The agent manager: registration and the periodic check, which awaits    *)
(* asyncio.gather over one ping coroutine per registered agent.            *)

\* a ping coroutine is named by the run of the job and the agent
TaskIds == (1..MaxRounds) \X (1..NumAgents)

InitAgents ==
    /\ agents = 0
    /\ status = <<>>
    /\ info = <<>>
    /\ tasks = [t \in TaskIds |-> "none"]
    /\ gather = <<>>
    /\ round = 0

\* server.agent_register -> Agent.__init__, AgentManager.register_agent
RegisterAgent ==
    /\ agents < NumAgents
    /\ agents' = agents + 1
    /\ status' = Append(status, "offline")
    /\ info' = Append(info, 0)
    /\ UNCHANGED <<tasks, gather, round>>

\* the interval job: _check_agent_status starts a ping per agent and awaits
\* the gather; the scheduler runs one instance of the job at a time
CheckAgentStatus ==
    /\ round < MaxRounds
    /\ IF round = 0 THEN TRUE ELSE gather[round] # "waiting"
    /\ round' = round + 1
    /\ tasks' = [t \in TaskIds |->
                    IF t[1] = round + 1 /\ t[2] <= agents THEN "awaiting"
                    ELSE tasks[t]]
    /\ gather' = Append(gather, IF agents = 0 THEN "returned" ELSE "waiting")
    /\ UNCHANGED <<agents, status, info>>

\* asyncio.gather with a TaskGroup's behaviour: the first exception cancels
\* the pings of the same gather that are still awaiting
SiblingsCancelled(ts, t) ==
    [u \in DOMAIN ts |->
        IF u[1] = t[1] /\ u # t /\ ts[u] = "awaiting" THEN "cancelled" ELSE ts[u]]

\* asyncio.gather(return_exceptions=False) when the ping t raises: the
\* exception goes to the awaiter, the other pings are left running
SiblingsAfterException(ts, t) == ts

\* the gather of round r once its ping t has ended with outcome
GatherAfter(g, ts, t, outcome) ==
    IF g[t[1]] # "waiting" THEN g
    ELSE IF outcome # "returned" THEN [g EXCEPT ![t[1]] = "raised"]
    ELSE IF \A u \in DOMAIN ts : (u[1] = t[1] /\ u # t) => ts[u] = "returned"
         THEN [g EXCEPT ![t[1]] = "returned"]
         ELSE g

\* Agent.ping, the try branch: the response arrives
PingResponds(t) ==
    /\ tasks[t] = "awaiting"
    /\ info' = [info EXCEPT ![t[2]] = 1]
    /\ status' = [status EXCEPT ![t[2]] = "online"]
    /\ tasks' = [tasks EXCEPT ![t] = "returned"]
    /\ gather' = GatherAfter(gather, tasks, t, "returned")
    /\ UNCHANGED <<agents, round>>

\* Agent.ping, except asyncio.TimeoutError: offline, AgentOfflineError
PingTimesOut(t) ==
    /\ tasks[t] = "awaiting"
    /\ status' = [status EXCEPT ![t[2]] = "offline"]
    /\ tasks' = [SiblingsAfterException(tasks, t) EXCEPT ![t] = "offline_error"]
    /\ gather' = GatherAfter(gather, tasks, t, "offline_error")
    /\ UNCHANGED <<agents, info, round>>

\* Agent.ping, any other exception of the request: it is not caught
PingFails(t) ==
    /\ tasks[t] = "awaiting"
    /\ tasks' = [SiblingsAfterException(tasks, t) EXCEPT ![t] = "error"]
    /\ gather' = GatherAfter(gather, tasks, t, "error")
    /\ UNCHANGED <<agents, status, info, round>>

PingEnds(t) == PingResponds(t) \/ PingTimesOut(t) \/ PingFails(t)

NextAgents ==
    \/ RegisterAgent
    \/ CheckAgentStatus
    \/ \E t \in TaskIds : PingResponds(t)
    \/ \E t \in TaskIds : PingTimesOut(t)
    \/ \E t \in TaskIds : PingFails(t)

\* the request of a ping ends: by its response, by the client's total
\* timeout, or by an error; the event loop keeps running the other pings
StartAgents ==
    BuildIdle /\ LayerIdle /\ ExtractIdle /\ UnpackIdle /\ InitAgents

StepAgents ==
    NextAgents /\ UNCHANGED <<buildVars, layerVars, extractVars, unpackVars>>

SpecAgents ==
    /\ StartAgents
    /\ [][StepAgents]_vars
    /\ WF_vars((\E t \in TaskIds : PingEnds(t))
                   /\ UNCHANGED <<buildVars, layerVars, extractVars,
                                  unpackVars>>)

Ended == {"returned", "offline_error", "error"}

\* no ping is ever cancelled
NoPingCancelled == \A t \in TaskIds : tasks[t] # "cancelled"

\* a ping that ends sets its own agent's status, and no other ping's end
\* or timeout changes the status of an agent
OwnStatusOnly ==
    /\ \A t \in TaskIds :
          /\ (tasks[t] = "awaiting" /\ tasks'[t] = "offline_error")
                 => status'[t[2]] = "offline"
          /\ (tasks[t] = "awaiting" /\ tasks'[t] = "returned")
                 => status'[t[2]] = "online"
          /\ tasks[t] \notin {"none", "awaiting"} => tasks'[t] = tasks[t]
    /\ \A a \in 1..agents :
          status'[a] # status[a] =>
              \E t \in TaskIds :
                  t[2] = a /\ tasks[t] = "awaiting" /\ tasks'[t] \in Ended

\* every ping that was started runs to its end: from some point on no
\* ping is awaiting
EveryPingEnds == <>[](\A t \in TaskIds : tasks[t] # "awaiting")

\* C9: in the periodic check a timeout of one agent's ping sets that
\* agent's status to "offline" and raises AgentOfflineError to the caller of
\* that ping, while no other ping is cancelled or altered: each runs to its
\* end and sets its own agent's status, under every interleaving.
C9_PingsIsolated ==
    /\ []NoPingCancelled
    /\ [][OwnStatusOnly]_vars
    /\ EveryPingEnds

C9_Witness ==
    /\ agents >= 2 /\ round >= 1
    /\ gather[round] = "raised"
    /\ tasks[<<round, 1>>] = "offline_error" /\ status[1] = "offline"
    /\ tasks[<<round, 2>>] = "awaiting"

====
